---- MODULE Spec2Model ----
(***************************************************************************)
(* Delta-neutral hedging bot: the cycle controller (main.py), the two      *)
(* venue adapters' smart execution engines (pacifica_client.py,            *)
(* paradex_client.py) and the safe-close watchdog.                         *)
(*                                                                         *)
(* Units.  Times are milliseconds.  Sizes are integers counting 1e-4 of a  *)
(* coin, so the default min_size 0.001 is 10.  Percent comparisons are     *)
(* cross-multiplied (x >= q * 0.98 is 100 * x >= 98 * q).                  *)
(*                                                                         *)
(* Time.  now is what time.time() returns.  The sleeps of the engines and  *)
(* of the watchdog are short against the thresholds the code compares      *)
(* elapsed time with: they are points where the coroutine yields, and the  *)
(* time that they and the venue calls take is the environment's Tick,      *)
(* which moves the clock by CLOCK_STEP or, once, by CLOCK_LEAP.  The hold  *)
(* monitor's sleep drives its loop and moves the clock by its duration.    *)
(* The code only uses differences of time.time(), so the clock restarts    *)
(* at 0 where no earlier reading is still in use.                          *)
(***************************************************************************)
EXTENDS Integers, Sequences, FiniteSets, TLC

VARIABLES
    now,        \* time.time() (ms)
    cycle,      \* the cycles of run completed
    faults,     \* the venues' faults so far: failed position queries, partial fills
    pos,        \* [Tasks -> Int]: the position the venue really holds
    resting,    \* [Tasks -> order]: the engine's order resting on the venue
    ex,         \* [Tasks -> call]: the execute_smart_maker invocation per (venue, symbol)
    pc,         \* where the main coroutine (HedgingBot.run) stands
    bot,        \* the main coroutine's local variables
    tg,         \* notifications sent in the current cycle, oldest first
    hist        \* what the current cycle has done so far (history only)

vars == <<now, cycle, faults, pos, resting, ex, pc, bot, tg, hist>>

----------------------------------------------------------------------------
(* Bounds of the model *)

\* the clock is stepped up to here after a restart (ms), then it may leap
MaxTime == 10000
\* cycles of run after the first
MaxCycles == 1
\* faults of the venues in a run
MaxFaults == 2
\* coins in a list given to the analysis on its own
MaxCoins == 2
\* the free collateral goes up to this much over PAR_MIN_BALANCE
MaxOver == 10
\* tasks that share the primary venue's adapter
MaxTasks == 2

----------------------------------------------------------------------------
(* config.py and the constants of the adapters *)

\* one of the coins of SYMBOL_MAP
TARGET_COINS == <<"BNB">>
CLOSE_TIMEOUT_ALERT == 600
MIN_USD == 100
MAX_USD == 300
PAR_MIN_BALANCE == 50
\* symbol_rules default {"min_size": 0.001}, in size units
MIN_SIZE == 10
\* the step exchange.amount_to_precision truncates to, in size units
PAR_STEP == 10
MAKER_TRY_WINDOW == 10
\* HOLD_RANGE[0], seconds
HOLD_MIN == 28850
FUNDING_CHECK_INTERVAL == 600
\* MIN_OPEN_APY 0.05 and MIN_CLOSE_APY 0.00, in 1e-6
MIN_OPEN_APY == 50000
MIN_CLOSE_APY == 0
\* MAX_OPEN_SPREAD 0.006, in 1e-3
MAX_OPEN_SPREAD == 6

Symbols == {TARGET_COINS[i] : i \in DOMAIN TARGET_COINS}
Venues == {"pac", "par"}
Tasks == Venues \X Symbols

\* the clock's step: the shortest threshold of the code (MAKER_TRY_WINDOW)
CLOCK_STEP == MAKER_TRY_WINDOW * 1000
\* the clock's leap: past every threshold of the code
CLOCK_LEAP == (CLOSE_TIMEOUT_ALERT + 1) * 1000

Abs(x) == IF x < 0 THEN -x ELSE x

\* time.time()
Time == now

----------------------------------------------------------------------------
(* Orders and fills (the venue's side) *)

NoRest == [side |-> "-", qty |-> 0, reduce_only |-> FALSE]
NoOrder == "none"

IsBuy(side) == side \in {"BUY", "buy"}

\* a position query may fail while the faults last
QueryAnswers == IF faults < MaxFaults THEN BOOLEAN ELSE {TRUE}

\* the faults counted after a position query
Queried(ok) == IF ok THEN faults ELSE faults + 1

\* the faults counted after a batch of position queries gathered together
QueriedAll(ok) == IF \A t \in DOMAIN ok : ok[t] THEN faults ELSE faults + 1

\* what a venue may fill of an order of q: nothing, all of it, or, while the
\* faults (n so far) last, a part: one lot, or half the order in whole lots
FillChoices(q, lot, n) ==
    {0, q} \cup (IF n < MaxFaults
                 THEN {f \in {lot, ((q \div 2) \div lot) * lot} : 0 < f /\ f < q}
                 ELSE {})

\* the faults counted after a fill of f of an order of q
Partials(f, q, n) == IF 0 < f /\ f < q THEN n + 1 ELSE n

\* a reduce-only order fills only against an opposite position, up to its size
Fillable(p, side, q, reduce_only) ==
    IF ~reduce_only THEN q
    ELSE IF IsBuy(side) /\ p < 0 THEN (IF q < -p THEN q ELSE -p)
    ELSE IF ~IsBuy(side) /\ p > 0 THEN (IF q < p THEN q ELSE p)
    ELSE 0

Filled(p, side, f) == IF IsBuy(side) THEN p + f ELSE p - f

----------------------------------------------------------------------------
(* execute_smart_maker: the call record *)

Idle ==
    [pc |-> "idle", side |-> "-", qty |-> 0, timeout |-> 0, is_close |-> FALSE,
     aggressive |-> FALSE, start_time |-> 0, ret |-> FALSE,
     oid |-> FALSE, placed |-> NoOrder, why |-> "-"]

\* the code before the loop, run when time.time() is at:
\* start_time = time.time(), target_qty = qty
Call(venue, side, qty, timeout, is_close, aggressive, at) ==
    [Idle EXCEPT !.pc = IF venue = "pac" THEN "loop" ELSE "top",
                 !.side = side, !.qty = qty, !.timeout = timeout,
                 !.is_close = is_close, !.aggressive = aggressive,
                 !.start_time = at]

\* return r
Return(e, r) ==
    [Idle EXCEPT !.pc = "done", !.ret = r, !.qty = e.qty,
                 !.is_close = e.is_close, !.aggressive = e.aggressive]

\* return r at the return statement named why (history only): "cleared",
\* "filled" and "dust" (nothing left to trade after rounding) are the returns
\* of True, "timeout", "funds" and "error" (the outer except) those of False
ReturnAt(e, r, why) == [Return(e, r) EXCEPT !.why = why]

\* await asyncio.sleep(d), then go on at location l
SleepTo(e, l, d) == [e EXCEPT !.pc = l]

Active(t) == ex[t].pc \notin {"idle", "done"}

----------------------------------------------------------------------------
(* PacificaClient *)

\* round_to_tick(value, tick_size): ROUND_DOWN to a multiple of the tick
round_to_tick(value, tick_size) == (value \div tick_size) * tick_size

\* get_position: the signed size, or 0.0 when the request fails or is not 200
pac_get_position(t, ok) == IF ok THEN pos[t] ELSE 0

\* a variant of open_filled that is content with half the target
open_filled_half(cur_size, target_qty) == 2 * cur_size >= target_qty

\* open mode, on both venues: cur_size >= target_qty * 0.98
open_filled(cur_size, target_qty) == 100 * cur_size >= 98 * target_qty

\* a variant of pac_aggressive that escalates at 10 s sharp, as the hedge venue does
pac_aggressive_at(is_close, elapsed) == is_close /\ elapsed >= 10000

\* aggressive = is_close and (elapsed > 10)
pac_aggressive(is_close, elapsed) == is_close /\ elapsed > 10000

\* a variant of pac_decide whose close mode gives up at its timeout
pac_decide_with_timeout(e, size) ==
    LET cur_size == Abs(size) IN
    IF e.is_close
    THEN IF cur_size < MIN_SIZE THEN <<"return", TRUE, "cleared">>
         ELSE IF Time - e.start_time > e.timeout THEN <<"return", FALSE, "timeout">>
         ELSE <<"trade", IF size > 0 THEN "SELL" ELSE "BUY",
                round_to_tick(cur_size, MIN_SIZE)>>
    ELSE IF open_filled(cur_size, e.qty) THEN <<"return", TRUE, "filled">>
         ELSE IF Time - e.start_time > e.timeout THEN <<"return", FALSE, "timeout">>
         ELSE LET clean_qty == round_to_tick(e.qty - cur_size, MIN_SIZE) IN
              IF clean_qty <= 0 THEN <<"return", TRUE, "dust">>
              ELSE <<"trade", e.side, clean_qty>>

\* the head of one loop iteration, up to clean_qty: <<"return", r, why>> or
\* <<"trade", side, clean_qty>>
pac_decide(e, size) ==
    LET cur_size == Abs(size) IN
    IF e.is_close
    THEN IF cur_size < MIN_SIZE THEN <<"return", TRUE, "cleared">>
         ELSE LET clean_qty == round_to_tick(cur_size, MIN_SIZE) IN
              IF clean_qty <= 0 THEN <<"return", TRUE, "dust">>
              ELSE <<"trade", IF size > 0 THEN "SELL" ELSE "BUY", clean_qty>>
    ELSE IF open_filled(cur_size, e.qty) THEN <<"return", TRUE, "filled">>
         ELSE IF Time - e.start_time > e.timeout THEN <<"return", FALSE, "timeout">>
         ELSE LET clean_qty == round_to_tick(e.qty - cur_size, MIN_SIZE) IN
              IF clean_qty <= 0 THEN <<"return", TRUE, "dust">>
              ELSE <<"trade", e.side, clean_qty>>

\* one iteration of the while loop, from get_position to the blind wait
pac_execute_smart_maker(t) ==
    /\ t[1] = "pac" /\ ex[t].pc = "loop"
    /\ \E ok \in QueryAnswers :
        LET e == ex[t]
            d == pac_decide(e, pac_get_position(t, ok))
        IN
        IF d[1] = "return"
        THEN /\ ex' = [ex EXCEPT ![t] = ReturnAt(e, d[2], d[3])]
             /\ faults' = Queried(ok)
             /\ UNCHANGED <<pos, resting>>
        ELSE
          LET side == d[2]
              clean_qty == d[3]
              elapsed == Time - e.start_time
              aggressive == pac_aggressive(e.is_close, elapsed)
              e1 == [e EXCEPT !.side = side]
          IN
          \/ \* get_best_bid_ask gave no bid: sleep 1 and go round
             /\ ex' = [ex EXCEPT ![t] = SleepTo(e1, "loop", 1000)]
             /\ faults' = Queried(ok)
             /\ UNCHANGED <<pos, resting>>
          \/ \* create_order returned "POST_ONLY_FAIL" (an ALO order would cross)
             /\ ~aggressive
             /\ ex' = [ex EXCEPT ![t] = SleepTo(e1, "loop", 500)]
             /\ faults' = Queried(ok)
             /\ UNCHANGED <<pos, resting>>
          \/ \* create_order returned None
             /\ ex' = [ex EXCEPT ![t] = SleepTo(e1, "loop", 1000)]
             /\ faults' = Queried(ok)
             /\ UNCHANGED <<pos, resting>>
          \/ \* an IOC order: it fills at once, as far as the book allows
             /\ aggressive
             /\ LET m == Fillable(pos[t], side, clean_qty, e.is_close) IN
                \E f \in FillChoices(m, MIN_SIZE, Queried(ok)) :
                  /\ pos' = [pos EXCEPT ![t] = Filled(pos[t], side, f)]
                  /\ faults' = Partials(f, m, Queried(ok))
             /\ ex' = [ex EXCEPT ![t] = SleepTo(
                    [e1 EXCEPT !.oid = TRUE,
                               !.placed = "taker"],
                    "cancel", 1000)]
             /\ UNCHANGED resting
          \/ \* an ALO order: it rests during the blind wait
             /\ ~aggressive
             /\ resting' = [resting EXCEPT ![t] =
                    [side |-> side, qty |-> clean_qty, reduce_only |-> e.is_close]]
             /\ ex' = [ex EXCEPT ![t] = SleepTo(
                    [e1 EXCEPT !.oid = TRUE,
                               !.placed = "maker"],
                    "cancel", 5000)]
             /\ faults' = Queried(ok)
             /\ UNCHANGED pos
    /\ UNCHANGED <<now, cycle, pc, bot, tg, hist>>

\* the book after a cancel request: the order is gone when the request went
\* through; it rests on when the request failed
cancelled(order, ok) == IF ok THEN NoRest ELSE order

\* cancel_order(symbol, oid) after the blind wait, then the cooldown; the
\* request may fail (it answers False) and the answer is not looked at
pac_cancel_order(t) ==
    /\ t[1] = "pac" /\ ex[t].pc = "cancel"
    /\ \E ok \in QueryAnswers :
        /\ resting' = [resting EXCEPT ![t] = cancelled(@, ok \/ @ = NoRest)]
        /\ faults' = IF resting[t] = NoRest THEN faults ELSE Queried(ok)
    /\ ex' = [ex EXCEPT ![t] =
            SleepTo([ex[t] EXCEPT !.oid = FALSE, !.placed = NoOrder], "loop", 1000)]
    /\ UNCHANGED <<now, cycle, pos, pc, bot, tg, hist>>

----------------------------------------------------------------------------
(* ParadexClient *)

\* get_position: the signed size, or 0.0 when fetch_positions raises
par_get_position(t, ok) == IF ok THEN pos[t] ELSE 0

\* exchange.amount_to_precision: truncation to the market's amount step; where
\* the result is 0 the library returns it or raises InvalidOrder, by its version
amount_to_precision(q) == (q \div PAR_STEP) * PAR_STEP

\* use_market: >= MAKER_TRY_WINDOW for aggressive or close calls, > 30 otherwise
par_use_market(aggressive, is_close, elapsed) ==
    IF aggressive \/ is_close THEN elapsed >= MAKER_TRY_WINDOW * 1000
    ELSE elapsed > 30000

\* the head of one loop iteration, up to amt
par_decide(e, size) ==
    LET current_size == Abs(size) IN
    IF e.is_close
    THEN IF current_size <= 0 THEN <<"return", TRUE, "cleared">>
         ELSE LET amt == amount_to_precision(current_size) IN
              IF amt <= 0 THEN <<"return", TRUE, "dust">>
              ELSE <<"trade", IF size > 0 THEN "sell" ELSE "buy", amt>>
    ELSE IF open_filled(current_size, e.qty) THEN <<"return", TRUE, "filled">>
         ELSE IF Time - e.start_time > e.timeout THEN <<"return", FALSE, "timeout">>
         ELSE LET amt == amount_to_precision(e.qty - current_size) IN
              IF amt <= 0 THEN <<"return", TRUE, "dust">>
              ELSE <<"trade", e.side, amt>>

\* the top of the loop: cancel_all_open_orders, then sleep 0.5; an exception
\* of fetch_open_orders or cancel_all_orders is swallowed
par_cancel_all_open_orders(t) ==
    /\ t[1] = "par" /\ ex[t].pc = "top"
    /\ \E ok \in QueryAnswers :
        /\ resting' = [resting EXCEPT ![t] = cancelled(@, ok \/ @ = NoRest)]
        /\ faults' = IF resting[t] = NoRest THEN faults ELSE Queried(ok)
    /\ ex' = [ex EXCEPT ![t] = SleepTo([ex[t] EXCEPT !.placed = NoOrder], "read", 500)]
    /\ UNCHANGED <<now, cycle, pos, pc, bot, tg, hist>>

\* the rest of the iteration, from get_position to the order
par_execute_smart_maker(t) ==
    /\ t[1] = "par" /\ ex[t].pc = "read"
    /\ \E ok \in QueryAnswers :
        LET e == ex[t]
            d == par_decide(e, par_get_position(t, ok))
        IN
        IF d[1] = "return"
        THEN /\ \/ ex' = [ex EXCEPT ![t] = ReturnAt(e, d[2], d[3])]
                \/ \* amount_to_precision raised: except Exception: return False
                   /\ d[3] = "dust"
                   /\ ex' = [ex EXCEPT ![t] = ReturnAt(e, FALSE, "error")]
             /\ faults' = Queried(ok)
             /\ UNCHANGED <<pos, resting>>
        ELSE
          LET side == d[2]
              amt == d[3]
              elapsed == Time - e.start_time
              use_market == par_use_market(e.aggressive, e.is_close, elapsed)
              e1 == [e EXCEPT !.side = side]
          IN
          \/ \* a market order, filled at once as far as the book allows
             /\ use_market
             /\ \E f \in FillChoices(amt, PAR_STEP, Queried(ok)) :
                  /\ pos' = [pos EXCEPT ![t] = Filled(pos[t], side, f)]
                  /\ faults' = Partials(f, amt, Queried(ok))
             /\ ex' = [ex EXCEPT ![t] = SleepTo(
                    [e1 EXCEPT !.placed = "taker"],
                    "top", 0)]
             /\ UNCHANGED resting
          \/ \* fetch_order_book gave an empty side: sleep 1 and go round
             /\ ~use_market
             /\ ex' = [ex EXCEPT ![t] = SleepTo(e1, "top", 1000)]
             /\ faults' = Queried(ok)
             /\ UNCHANGED <<pos, resting>>
          \/ \* a post-only limit order at the touch: it rests for 3 s
             /\ ~use_market
             /\ resting' = [resting EXCEPT ![t] =
                    [side |-> side, qty |-> amt, reduce_only |-> FALSE]]
             /\ ex' = [ex EXCEPT ![t] = SleepTo(
                    [e1 EXCEPT !.placed = "maker"],
                    "top", 3000)]
             /\ faults' = Queried(ok)
             /\ UNCHANGED pos
          \/ \* the order raised "insufficient funds"
             /\ ex' = [ex EXCEPT ![t] = ReturnAt(e, FALSE, "funds")]
             /\ faults' = Queried(ok)
             /\ UNCHANGED <<pos, resting>>
          \/ \* the order raised a post-only rejection: retry at once
             /\ ~use_market
             /\ ex' = [ex EXCEPT ![t] = SleepTo(e1, "top", 0)]
             /\ faults' = Queried(ok)
             /\ UNCHANGED <<pos, resting>>
          \/ \* any other error of the order or the book: sleep 1 and go round
             /\ ex' = [ex EXCEPT ![t] = SleepTo(e1, "top", 1000)]
             /\ faults' = Queried(ok)
             /\ UNCHANGED <<pos, resting>>
    /\ UNCHANGED <<now, cycle, pc, bot, tg, hist>>

----------------------------------------------------------------------------
(* The venues and the clock *)

\* a resting order is filled, in part or whole
Fill(t) ==
    /\ resting[t].qty > 0
    /\ LET r == resting[t]
           m == Fillable(pos[t], r.side, r.qty, r.reduce_only)
       IN \E f \in FillChoices(m, MIN_SIZE, faults) \ {0} :
            /\ pos' = [pos EXCEPT ![t] = Filled(pos[t], r.side, f)]
            /\ faults' = Partials(f, m, faults)
            /\ resting' = [resting EXCEPT ![t] =
                    IF f = r.qty THEN NoRest ELSE [r EXCEPT !.qty = r.qty - f]]
    /\ UNCHANGED <<now, cycle, ex, pc, bot, tg, hist>>

\* a start time is in use: a call is running or the watchdog is
TimerRunning ==
    \/ \E t \in Tasks : Active(t)
    \/ pc \in {"monitor", "gather"}

\* time passes: a step while the clock is below MaxTime, or the leap
Tick ==
    /\ TimerRunning
    /\ \/ now + CLOCK_STEP <= MaxTime /\ now' = now + CLOCK_STEP
       \/ now <= MaxTime /\ now' = now + CLOCK_LEAP
    /\ UNCHANGED <<cycle, faults, pos, resting, ex, pc, bot, tg, hist>>

\* no earlier clock reading is in use: the clock restarts at 0
ResetClocks == now' = 0

----------------------------------------------------------------------------
(* What the venues answer *)

Book(bid, ask) == [ok |-> TRUE, bid |-> bid, ask |-> ask]
NoBook == [ok |-> FALSE, bid |-> 0, ask |-> 0]
\* the quotes are chosen so that usd_amt / price is a whole number of size units
PacBooks == {NoBook, Book(999, 1001)}
ParBooks == {NoBook, Book(999, 1001), Book(900, 902), Book(1249, 1251)}

\* GET /account: the free collateral, or no answer
AccountReplies ==
    {[ok |-> FALSE, avail |-> 0], [ok |-> TRUE, avail |-> 40],
     [ok |-> TRUE, avail |-> 200], [ok |-> TRUE, avail |-> 1000]}

\* a funding rate in 1e-6 per hour, or None
Rate(v) == [ok |-> TRUE, v |-> v]
NoRate == [ok |-> FALSE, v |-> 0]
PacRates == {NoRate, Rate(0), Rate(100)}
\* Paradex reports the 8-hour rate
ParRawRates == {NoRate, Rate(-1600), Rate(0), Rate(800)}

----------------------------------------------------------------------------
(* TelegramNotifier *)

\* send_message: the message is handed to the channel; it never raises
send_message(log, msg) == Append(log, msg)

Count(msg) == Cardinality({i \in DOMAIN tg : tg[i] = msg})

----------------------------------------------------------------------------
(* HedgingBot: the locals of the main coroutine and the cycle's history *)

NoBot ==
    [symbol |-> "-", pac_side |-> "-", target_qty |-> 0, real_pac_size |-> 0,
     symbols |-> {}, start_close_time |-> 0, alert_sent |-> FALSE,
     hold_start |-> 0, hold_time |-> 0, awaiting |-> {}]

NoHist ==
    [scan_dirty |-> FALSE, dirty |-> {}, analyzed |-> FALSE, opened |-> FALSE,
     open_ret |-> "-", pac_read |-> 0, hedge_failed |-> FALSE, panic |-> FALSE,
     probe |-> <<FALSE, FALSE>>, close_done |-> FALSE, flat_at_entry |-> FALSE,
     owed |-> "-"]

Pac(s) == <<"pac", s>>
Par(s) == <<"par", s>>

\* neither venue holds a position in s
Flat(s) == pos[Pac(s)] = 0 /\ pos[Par(s)] = 0

\* get_position on the venue of task t
get_position(t, ok) ==
    IF t[1] = "pac" THEN pac_get_position(t, ok) ELSE par_get_position(t, ok)

\* ParadexClient.check_health(required_usd), required_usd given times 10
par_check_health(reply, required_x10) ==
    /\ reply.ok
    /\ ~(reply.avail < PAR_MIN_BALANCE \/ 10 * reply.avail < required_x10)

----------------------------------------------------------------------------
(* HedgingBot.global_scan and the head of a cycle of run *)

\* a variant of run_after_scan that looks for an opportunity whatever the scan found
run_after_scan_ignored(need_rescue) == "analyze"

\* run: if need_rescue: safe_universal_close(dirty) else: analyze ...
run_after_scan(need_rescue) == IF need_rescue THEN "landing" ELSE "analyze"

\* symbols = target_symbols if target_symbols else Config.TARGET_COINS
close_targets(target_symbols) ==
    IF target_symbols # {} THEN target_symbols ELSE Symbols

global_scan ==
    /\ pc = "scan"
    /\ \E ok \in [Tasks -> QueryAnswers] :
        LET size(t) == get_position(t, ok[t])
            dirty_symbols ==
                {s \in Symbols : Abs(size(Pac(s))) > 0 \/ Abs(size(Par(s))) > 0}
            need_rescue == dirty_symbols # {}
        IN
        /\ pc' = run_after_scan(need_rescue)
        /\ bot' = [bot EXCEPT !.symbols =
                IF need_rescue THEN close_targets(dirty_symbols) ELSE {}]
        /\ hist' = [hist EXCEPT !.scan_dirty = need_rescue, !.dirty = dirty_symbols]
        /\ faults' = QueriedAll(ok)
    /\ resting' = [t \in Tasks |-> IF t[1] = "par" THEN NoRest ELSE resting[t]]
    /\ UNCHANGED <<now, cycle, pos, ex, tg>>

----------------------------------------------------------------------------
(* HedgingBot.analyze_funding_opportunities *)

\* a variant of rate_fetched that takes every answer for a rate
rate_fetched_any(r) == TRUE

\* not (isinstance(r, Exception) or r is None)
rate_fetched(r) == r.ok

\* ParadexClient.get_funding_rate: the 8-hour rate over 8
par_hourly(r) == [ok |-> r.ok, v |-> r.v \div 8]

\* a variant of pac_side_of that sells on the primary venue whatever the rates
pac_side_sell(r_pac, r_par) == "SELL"

\* SELL on the primary venue when its rate is the higher, BUY otherwise
pac_side_of(r_pac, r_par) ==
    IF r_pac - r_par > r_par - r_pac THEN "SELL" ELSE "BUY"

\* best_spread_hourly * 24 * 365 for the side chosen
apy_of(r_pac, r_par) ==
    (IF pac_side_of(r_pac, r_par) = "SELL" THEN r_pac - r_par ELSE r_par - r_pac)
        * 24 * 365

\* a variant of first_best that takes the last of the opportunities of the
\* highest apy
last_best(opportunities, apy) ==
    CHOOSE i \in opportunities : \A j \in opportunities :
        apy[j] < apy[i] \/ (apy[j] = apy[i] /\ j <= i)

\* opportunities.sort(key=apy, reverse=True)[0]: the sort is stable, so the
\* first in list order of the opportunities of the highest apy
first_best(opportunities, apy) ==
    CHOOSE i \in opportunities : \A j \in opportunities :
        apy[j] < apy[i] \/ (apy[j] = apy[i] /\ i <= j)

\* the best opportunity among coins, or symbol None; par_rates are hourly
analyze_coins(coins, pac_rates, par_rates) ==
    LET fetched == {i \in DOMAIN coins :
                        rate_fetched(pac_rates[i]) /\ rate_fetched(par_rates[i])}
        apy == [i \in DOMAIN coins |-> apy_of(pac_rates[i].v, par_rates[i].v)]
        opportunities == {i \in fetched : apy[i] >= MIN_OPEN_APY}
    IN
    IF opportunities = {} THEN [symbol |-> "None", pac_side |-> "-"]
    ELSE LET best == first_best(opportunities, apy) IN
         [symbol |-> coins[best],
          pac_side |-> pac_side_of(pac_rates[best].v, par_rates[best].v)]

\* the best opportunity of the tracked coins, or symbol None
analyze(pac_rates, par_rates) ==
    analyze_coins(TARGET_COINS, pac_rates,
                  [i \in DOMAIN par_rates |-> par_hourly(par_rates[i])])

analyze_funding_opportunities ==
    /\ pc = "analyze"
    /\ \E pac_rates \in [DOMAIN TARGET_COINS -> PacRates],
          par_rates \in [DOMAIN TARGET_COINS -> ParRawRates] :
        LET best == analyze(pac_rates, par_rates) IN
        IF best.symbol = "None"
        THEN pc' = "sleeping" /\ bot' = bot
        ELSE /\ pc' = "open"
             /\ bot' = [bot EXCEPT !.symbol = best.symbol, !.pac_side = best.pac_side]
    /\ hist' = [hist EXCEPT !.analyzed = TRUE]
    /\ UNCHANGED <<now, cycle, faults, pos, resting, ex, tg>>

----------------------------------------------------------------------------
(* HedgingBot.execute_dual_open *)

\* check_price_spread: False without four quotes or when the cost is over the limit
check_price_spread(pac_q, par_q, pac_side) ==
    IF ~(pac_q.ok /\ par_q.ok) THEN FALSE
    ELSE IF pac_side = "BUY"
         THEN ~((pac_q.ask - par_q.bid) * 1000 > MAX_OPEN_SPREAD * par_q.bid)
         ELSE ~((par_q.ask - pac_q.bid) * 1000 > MAX_OPEN_SPREAD * pac_q.bid)

\* a variant of hedge_qty that sizes the hedge leg to the plan
hedge_qty_planned(real_pac_size, target_qty) == target_qty

\* the quantity of the hedge leg: real_pac_size
hedge_qty(real_pac_size, target_qty) == real_pac_size

\* a variant of after_hedge that returns failure without the rollback
after_hedge_no_rollback(par_success) == IF par_success THEN "hold" ELSE "cooldown"

\* after the hedge leg: the hold on success, the rollback on failure
after_hedge(par_success) == IF par_success THEN "hold" ELSE "rollback"

\* execute_dual_open returns False to run, which cools down
OpenFails(why) ==
    /\ pc' = "cooldown"
    /\ hist' = [hist EXCEPT !.opened = TRUE, !.open_ret = why,
                            !.flat_at_entry = IF why = "small" THEN @ ELSE Flat(bot.symbol)]

\* from the entry to the call of the primary leg
execute_dual_open ==
    /\ pc = "open"
    /\ \E usd_amt \in {MIN_USD, MAX_USD}, pac_q \in PacBooks, par_q \in ParBooks,
          acct \in AccountReplies, book \in PacBooks :
        IF ~check_price_spread(pac_q, par_q, bot.pac_side)
        THEN OpenFails("spread") /\ UNCHANGED <<now, ex, bot>>
        ELSE IF ~par_check_health(acct, usd_amt * 11)
        THEN OpenFails("health") /\ UNCHANGED <<now, ex, bot>>
        ELSE IF ~book.ok
        THEN \* price = (bid + ask) / 2 raises on None
             /\ pc' = "error"
             /\ hist' = [hist EXCEPT !.opened = TRUE]
             /\ UNCHANGED <<now, ex, bot>>
        ELSE LET target_qty == (usd_amt * 20000) \div (book.bid + book.ask) IN
             /\ pc' = "open_pac"
             /\ hist' = [hist EXCEPT !.opened = TRUE, !.flat_at_entry = Flat(bot.symbol)]
             /\ bot' = [bot EXCEPT !.target_qty = target_qty,
                                   !.awaiting = {Pac(bot.symbol)}]
             /\ ex' = [ex EXCEPT ![Pac(bot.symbol)] =
                    Call("pac", bot.pac_side, target_qty, 120000, FALSE, FALSE, 0)]
             /\ ResetClocks
    /\ UNCHANGED <<cycle, faults, pos, resting, tg>>

\* the primary leg has returned: read the fill, then call the hedge leg
dual_open_hedge ==
    /\ pc = "open_pac" /\ ex[Pac(bot.symbol)].pc = "done"
    /\ \E ok \in QueryAnswers :
        LET s == bot.symbol
            pac_pos == pac_get_position(Pac(s), ok)
            real_pac_size == Abs(pac_pos)
            par_side == IF bot.pac_side = "BUY" THEN "sell" ELSE "buy"
        IN
        /\ faults' = Queried(ok)
        /\ IF 20 * real_pac_size < bot.target_qty
           THEN /\ OpenFails("small")
                /\ ex' = [ex EXCEPT ![Pac(s)] = Idle]
                /\ bot' = [bot EXCEPT !.awaiting = {}]
                /\ UNCHANGED now
           ELSE /\ pc' = "open_par"
                /\ hist' = [hist EXCEPT !.pac_read = pac_pos]
                /\ bot' = [bot EXCEPT !.real_pac_size = real_pac_size,
                                      !.awaiting = {Par(s)}]
                /\ ex' = [ex EXCEPT ![Pac(s)] = Idle,
                                    ![Par(s)] = Call("par", par_side,
                                        hedge_qty(real_pac_size, bot.target_qty),
                                        45000, FALSE, TRUE, 0)]
                /\ ResetClocks
    /\ UNCHANGED <<cycle, pos, resting, tg>>

\* the hedge leg has returned
dual_open_result ==
    /\ pc = "open_par" /\ ex[Par(bot.symbol)].pc = "done"
    /\ LET par_success == ex[Par(bot.symbol)].ret IN
        /\ pc' = after_hedge(par_success)
        /\ IF par_success
           THEN \* return True; run draws hold_time and enters smart_monitor_loop
                /\ tg' = send_message(tg, "OPEN_SUCCESS")
                /\ hist' = [hist EXCEPT !.open_ret = "ok", !.owed = bot.symbol]
                /\ bot' = [bot EXCEPT !.awaiting = {}, !.hold_start = 0,
                                      !.hold_time = HOLD_MIN * 1000]
           ELSE /\ tg' = send_message(tg, "HEDGE_FAILED")
                /\ hist' = [hist EXCEPT !.hedge_failed = TRUE]
                /\ bot' = [bot EXCEPT !.awaiting = {}]
    /\ ex' = [ex EXCEPT ![Par(bot.symbol)] = Idle]
    /\ ResetClocks
    /\ UNCHANGED <<cycle, faults, pos, resting>>

\* emergency_rollback: pac.panic_close(symbol), a close-mode call with timeout 30
emergency_rollback ==
    /\ pc = "rollback"
    /\ pc' = "rollback_pac"
    /\ ex' = [ex EXCEPT ![Pac(bot.symbol)] =
            Call("pac", "SELL", 0, 30000, TRUE, FALSE, 0)]
    /\ bot' = [bot EXCEPT !.awaiting = {Pac(bot.symbol)}]
    /\ hist' = [hist EXCEPT !.panic = TRUE]
    /\ ResetClocks
    /\ UNCHANGED <<cycle, faults, pos, resting, tg>>

\* emergency_rollback: then the close-mode call on the hedge venue
rollback_hedge_leg ==
    /\ pc = "rollback_pac" /\ ex[Pac(bot.symbol)].pc = "done"
    /\ pc' = "rollback_par"
    /\ ex' = [ex EXCEPT ![Pac(bot.symbol)] = Idle,
                        ![Par(bot.symbol)] =
                            Call("par", "sell", 0, 60000, TRUE, TRUE, 0)]
    /\ bot' = [bot EXCEPT !.awaiting = {Par(bot.symbol)}]
    /\ ResetClocks
    /\ UNCHANGED <<cycle, faults, pos, resting, tg, hist>>

\* the rollback is over: execute_dual_open returns False
rollback_return ==
    /\ pc = "rollback_par" /\ ex[Par(bot.symbol)].pc = "done"
    /\ pc' = "cooldown"
    /\ hist' = [hist EXCEPT !.open_ret = "hedge_failed"]
    /\ ex' = [ex EXCEPT ![Par(bot.symbol)] = Idle]
    /\ bot' = [bot EXCEPT !.awaiting = {}]
    /\ UNCHANGED <<now, cycle, faults, pos, resting, tg>>

----------------------------------------------------------------------------
(* HedgingBot.smart_monitor_loop *)

\* the history h with the rates that the funding check has just seen, where
\* h keeps them (the hold on its own does)
Seen(h, rates) ==
    IF "rates" \in DOMAIN h THEN [h EXCEPT !.rates = rates] ELSE h

\* min(Config.FUNDING_CHECK_INTERVAL, remaining), in ms
sleep_duration_of(remaining) ==
    IF FUNDING_CHECK_INTERVAL * 1000 < remaining
    THEN FUNDING_CHECK_INTERVAL * 1000 ELSE remaining

\* a variant of apy_dropped that reads a missing rate as 0
apy_dropped_unchecked(r_pac, r_par, pac_side) ==
    (IF pac_side = "SELL" THEN r_pac.v - r_par.v ELSE r_par.v - r_pac.v) * 24 * 365
        < MIN_CLOSE_APY

\* both rates are there and the APY of the held direction is under
\* MIN_CLOSE_APY; r_par is hourly
apy_dropped(r_pac, r_par, pac_side) ==
    /\ r_pac.ok /\ r_par.ok
    /\ (IF pac_side = "SELL" THEN r_pac.v - r_par.v ELSE r_par.v - r_pac.v) * 24 * 365
            < MIN_CLOSE_APY

\* one turn of the loop: the sleep and the funding check; when it ends run
\* calls safe_universal_close([symbol])
smart_monitor_loop ==
    /\ pc = "hold"
    /\ LET elapsed == Time - bot.hold_start
           remaining == bot.hold_time - elapsed
           sleep_duration == sleep_duration_of(remaining)
       IN
       IF ~(elapsed < bot.hold_time) \/ sleep_duration <= 0
       THEN /\ pc' = "landing"
            /\ bot' = [bot EXCEPT !.symbols = close_targets({bot.symbol})]
            /\ ResetClocks
            /\ UNCHANGED <<faults, hist>>
       ELSE \/ \E r_pac \in PacRates, r_raw \in ParRawRates :
               /\ hist' = Seen(hist, <<r_pac, r_raw>>)
               /\ IF apy_dropped(r_pac, par_hourly(r_raw), bot.pac_side)
                  THEN /\ pc' = "landing"
                       /\ bot' = [bot EXCEPT !.symbols = close_targets({bot.symbol})]
                       /\ ResetClocks
                       /\ UNCHANGED faults
                  ELSE /\ pc' = "hold"
                       /\ now' = now + sleep_duration
                       /\ UNCHANGED <<bot, faults>>
            \/ \* pac.get_funding_rate raises (the item's funding_rate is no
               \* number, a fault of the venue): the exception leaves the
               \* loop and reaches run
               /\ faults < MaxFaults
               /\ faults' = faults + 1
               /\ pc' = "error"
               /\ UNCHANGED <<now, bot, hist>>
    /\ UNCHANGED <<cycle, pos, resting, ex, tg>>

----------------------------------------------------------------------------
(* HedgingBot.safe_universal_close *)

\* a variant of landing_check_pass that is content with one healthy venue
landing_check_either(pac_ok, par_ok) == pac_ok \/ par_ok

\* if pac_ok and par_ok
landing_check_pass(pac_ok, par_ok) == pac_ok /\ par_ok

\* a variant of watchdog_alert that forgets that the alert was sent
watchdog_alert_repeated(elapsed, alert_sent) == elapsed > CLOSE_TIMEOUT_ALERT * 1000

\* the timeout notification is due
watchdog_alert(elapsed, alert_sent) ==
    elapsed > CLOSE_TIMEOUT_ALERT * 1000 /\ ~alert_sent

\* the time the landing check has kept failing, where the history keeps it
waited(h) == IF "waited" \in DOMAIN h THEN h.waited ELSE 0

\* the history after one more failed landing check and its sleep(10); the
\* check may go on failing for any length of time
Waited(h) ==
    IF "waited" \notin DOMAIN h THEN {h}
    ELSE {[h EXCEPT !.waited = w] :
            w \in (IF h.waited + CLOCK_STEP <= MaxTime THEN {h.waited + CLOCK_STEP} ELSE {})
                \cup (IF h.waited <= MaxTime THEN {h.waited + CLOCK_LEAP} ELSE {h.waited})}

\* a variant of start_close_time_at that starts the clock at the entry of
\* safe_universal_close
start_close_time_at_entry(passed_at, entered_at) == entered_at

\* start_close_time = time.time(), taken after the landing loop
start_close_time_at(passed_at, entered_at) == passed_at

\* one round of the landing check; on a pass the firing begins
safe_universal_close_landing ==
    /\ pc = "landing"
    /\ \E pac_ok \in BOOLEAN, acct \in AccountReplies :
        LET par_ok == par_check_health(acct, 0) IN
        /\ IF landing_check_pass(pac_ok, par_ok)
           THEN \* start_close_time = time.time(); alert_sent = False
                /\ pc' = "monitor"
                /\ bot' = [bot EXCEPT
                        !.start_close_time = start_close_time_at(0, 0 - waited(hist)),
                        !.alert_sent = FALSE]
                /\ ResetClocks
                /\ hist' = [hist EXCEPT !.probe = <<pac_ok, par_ok>>]
           ELSE \* sleep 10 and probe again
                /\ hist' \in Waited([hist EXCEPT !.probe = <<pac_ok, par_ok>>])
                /\ UNCHANGED <<pc, bot, now>>
    /\ UNCHANGED <<cycle, faults, pos, resting, ex, tg>>

\* one monitor round down to the fan-out of the close calls
safe_universal_close_round ==
    /\ pc = "monitor"
    /\ \E ok \in [Tasks -> QueryAnswers] :
        LET size(t) == get_position(t, ok[t])
            remaining_symbols ==
                {s \in bot.symbols : Abs(size(Pac(s))) > 0 \/ Abs(size(Par(s))) > 0}
            elapsed == Time - bot.start_close_time
            alert == watchdog_alert(elapsed, bot.alert_sent)
        IN
        /\ faults' = QueriedAll(ok)
        /\ IF remaining_symbols = {}
           THEN /\ tg' = IF bot.alert_sent THEN send_message(tg, "RESOLVED") ELSE tg
                /\ pc' = "cooldown"
                /\ hist' = [hist EXCEPT !.close_done = TRUE,
                        !.owed = IF @ \in bot.symbols THEN "-" ELSE @]
                /\ UNCHANGED <<ex, bot>>
           ELSE /\ tg' = IF alert THEN send_message(tg, "CLOSE_TIMEOUT") ELSE tg
                /\ bot' = [bot EXCEPT
                       !.alert_sent = bot.alert_sent \/ alert,
                       !.awaiting = {t \in Tasks : t[2] \in remaining_symbols}]
                /\ ex' = [t \in Tasks |->
                       IF t[2] \in remaining_symbols
                       THEN IF t[1] = "pac"
                            THEN Call("pac", "SELL", 0, 10000, TRUE, FALSE, Time)
                            ELSE Call("par", "sell", 0, 10000, TRUE, TRUE, Time)
                       ELSE ex[t]]
                /\ pc' = "gather"
                /\ hist' = hist
    /\ UNCHANGED <<now, cycle, pos, resting>>

\* a variant of gather_returned that gives up waiting
gather_timed_out(awaiting) == TRUE

\* await asyncio.gather(*tasks, return_exceptions=True): every task is back
gather_returned(awaiting) == \A t \in awaiting : ex[t].pc = "done"

\* gather has every close call back: sleep 5, then the next round
safe_universal_close_gather ==
    /\ pc = "gather"
    /\ gather_returned(bot.awaiting)
    /\ ex' = [t \in Tasks |-> IF t \in bot.awaiting THEN Idle ELSE ex[t]]
    /\ bot' = [bot EXCEPT !.awaiting = {}]
    /\ pc' = "monitor"
    /\ UNCHANGED <<now, cycle, faults, pos, resting, tg, hist>>

----------------------------------------------------------------------------
(* HedgingBot.run: the tail of a cycle *)

\* no opportunity: sleep 300
run_no_opportunity ==
    /\ pc = "sleeping"
    /\ pc' = "cooldown"
    /\ UNCHANGED <<now, cycle, faults, pos, resting, ex, bot, tg, hist>>

\* a variant of loop_error_report that keeps the exception to the log file
loop_error_logged(log) == log

\* tg.send_message("Bot Main Loop Error: ...", level="WARNING")
loop_error_report(log) == send_message(log, "LOOP_ERROR")

\* except Exception: the WARNING notification, then sleep 5
run_except ==
    /\ pc = "error"
    /\ tg' = loop_error_report(tg)
    /\ pc' = "cooldown"
    /\ UNCHANGED <<now, cycle, faults, pos, resting, ex, bot, hist>>

\* the sleep that ends the cycle; the next cycle starts from nothing kept
run_next_cycle ==
    /\ pc = "cooldown"
    /\ cycle < MaxCycles
    /\ cycle' = cycle + 1
    /\ pc' = "scan"
    /\ bot' = NoBot /\ tg' = <<>> /\ hist' = [NoHist EXCEPT !.owed = hist.owed]
    /\ ResetClocks
    /\ UNCHANGED <<faults, pos, resting, ex>>

----------------------------------------------------------------------------
(* The bot *)

InitPos == {-MIN_SIZE, 0, MIN_SIZE - 1, 2 * MIN_SIZE}

Init ==
    /\ now = 0 /\ cycle = 0 /\ faults = 0
    /\ pos \in [Tasks -> InitPos]
    /\ resting = [t \in Tasks |-> NoRest]
    /\ ex = [t \in Tasks |-> Idle]
    /\ pc = "scan"
    /\ bot = NoBot /\ tg = <<>> /\ hist = NoHist

Engine ==
    \/ \E t \in Tasks : pac_execute_smart_maker(t)
    \/ \E t \in Tasks : pac_cancel_order(t)
    \/ \E t \in Tasks : par_cancel_all_open_orders(t)
    \/ \E t \in Tasks : par_execute_smart_maker(t)

Next ==
    \/ global_scan
    \/ analyze_funding_opportunities
    \/ execute_dual_open
    \/ dual_open_hedge
    \/ dual_open_result
    \/ emergency_rollback
    \/ rollback_hedge_leg
    \/ rollback_return
    \/ smart_monitor_loop
    \/ safe_universal_close_landing
    \/ safe_universal_close_round
    \/ safe_universal_close_gather
    \/ run_no_opportunity
    \/ run_except
    \/ run_next_cycle
    \/ Engine
    \/ \E t \in Tasks : Fill(t)
    \/ Tick

Spec == Init /\ [][Next]_vars

----------------------------------------------------------------------------
(* One execute_smart_maker call on its own *)

Timeouts == {10000, 45000, 700000}
\* targets of an open call: whole lots, and a lot and a half
OpenQtys == {2 * MIN_SIZE, MIN_SIZE + MIN_SIZE \div 2}

InitExec ==
    /\ now = 0 /\ cycle = 0 /\ faults = 0
    /\ resting = [t \in Tasks |-> NoRest]
    /\ \E t \in Tasks, is_close \in BOOLEAN, aggressive \in BOOLEAN,
          timeout \in Timeouts, qty \in OpenQtys, buy \in BOOLEAN :
        /\ t[1] = "pac" => ~aggressive
        /\ is_close => (buy /\ timeout = 10000)
        /\ ex = [u \in Tasks |->
                IF u = t
                THEN Call(t[1],
                          IF t[1] = "pac" THEN (IF buy THEN "BUY" ELSE "SELL")
                          ELSE (IF buy THEN "buy" ELSE "sell"),
                          IF is_close THEN 0 ELSE qty, timeout, is_close, aggressive, 0)
                ELSE Idle]
        /\ \E p \in InitPos : pos = [u \in Tasks |-> IF u = t THEN p ELSE 0]
    /\ pc = "harness"
    /\ bot = NoBot /\ tg = <<>> /\ hist = NoHist

NextExec ==
    \/ \E t \in Tasks : pac_execute_smart_maker(t)
    \/ \E t \in Tasks : pac_cancel_order(t)
    \/ \E t \in Tasks : par_cancel_all_open_orders(t)
    \/ \E t \in Tasks : par_execute_smart_maker(t)
    \/ \E t \in Tasks : Fill(t)
    \/ Tick

SpecExec == InitExec /\ [][NextExec]_vars

----------------------------------------------------------------------------
(* analyze_funding_opportunities on its own, over lists of coins and the *)
(* answers of the two venues                                             *)

\* coins of SYMBOL_MAP
Coins == {"BNB", "SOL", "XRP"}

\* the lists TARGET_COINS can be: keys of a dict, so without repetition
CoinLists ==
    {c \in UNION {[1..n -> Coins] : n \in 0..MaxCoins} :
        \A i, j \in DOMAIN c : i # j => c[i] # c[j]}

\* hourly rates of the primary venue and 8-hour rates of the hedge venue
\* around the MIN_OPEN_APY threshold, or None
PacRatesNear == {NoRate, Rate(0), Rate(5), Rate(6), Rate(-6)}
ParRawRatesNear == {NoRate, Rate(0), Rate(40), Rate(48), Rate(-48)}

InitAnalyze ==
    /\ now = 0 /\ cycle = 0 /\ faults = 0
    /\ pos = [t \in Tasks |-> 0]
    /\ resting = [t \in Tasks |-> NoRest]
    /\ ex = [t \in Tasks |-> Idle]
    /\ pc = "analyze_in"
    /\ bot = NoBot /\ tg = <<>>
    /\ \E coins \in CoinLists :
        \E pac_rates \in [DOMAIN coins -> PacRatesNear],
           par_rates \in [DOMAIN coins -> ParRawRatesNear] :
            hist = [coins |-> coins, pac_rates |-> pac_rates, par_rates |-> par_rates]

\* the call: the venues answer hist.pac_rates and hist.par_rates
analyze_call ==
    /\ pc = "analyze_in"
    /\ LET best == analyze_coins(hist.coins, hist.pac_rates,
                    [i \in DOMAIN hist.coins |-> par_hourly(hist.par_rates[i])])
       IN bot' = [bot EXCEPT !.symbol = best.symbol, !.pac_side = best.pac_side]
    /\ pc' = "analyze_out"
    /\ UNCHANGED <<now, cycle, faults, pos, resting, ex, tg, hist>>

NextAnalyze == analyze_call

SpecAnalyze == InitAnalyze /\ [][NextAnalyze]_vars

----------------------------------------------------------------------------
(* ParadexClient.check_health on its own, over the answers of GET /account *)

\* the free collateral around PAR_MIN_BALANCE, or no answer
AccountRepliesNear ==
    {[ok |-> FALSE, avail |-> 0]}
        \cup {[ok |-> TRUE, avail |-> a] : a \in 0..(PAR_MIN_BALANCE + MaxOver)}

\* required_usd times 10: the landing check's 0, and usd_amt * 1.1 of the
\* pre-flight check
RequiredX10 == {0, MIN_USD * 11, MAX_USD * 11}

InitHealth ==
    /\ now = 0 /\ cycle = 0 /\ faults = 0
    /\ pos = [t \in Tasks |-> 0]
    /\ resting = [t \in Tasks |-> NoRest]
    /\ ex = [t \in Tasks |-> Idle]
    /\ pc = "health_in"
    /\ bot = NoBot /\ tg = <<>>
    /\ \E reply \in AccountRepliesNear, required_x10 \in RequiredX10 :
        hist = [reply |-> reply, required_x10 |-> required_x10, healthy |-> FALSE]

\* the call: the venue answers hist.reply
check_health_call ==
    /\ pc = "health_in"
    /\ hist' = [hist EXCEPT !.healthy = par_check_health(hist.reply, hist.required_x10)]
    /\ pc' = "health_out"
    /\ UNCHANGED <<now, cycle, faults, pos, resting, ex, bot, tg>>

NextHealth == check_health_call

SpecHealth == InitHealth /\ [][NextHealth]_vars

----------------------------------------------------------------------------
(* PacificaClient: the consecutive-error counter and the session, under the *)
(* tasks that share the adapter (the gathered position queries of the scan  *)
(* and of the monitor round, the close calls of the fan-out)                *)

NetTasks == 1..MaxTasks

\* the requests that set _consecutive_errors = 0 on status 200 and hand an
\* exception to _handle_network_error
CountedRequests ==
    {"check_auth_health", "get_cached_info", "get_best_bid_ask", "get_position",
     "create_order"}

\* cancel_order returns r.status == 200 and swallows every exception
Requests == CountedRequests \cup {"cancel_order"}

\* the counter after a request answered with status 200
errors_after_success(request, errors) ==
    IF request \in CountedRequests THEN 0 ELSE errors

\* hist.errors is _consecutive_errors, hist.session is self.session (TRUE
\* when open), hist.run counts the transport errors since the last request
\* that succeeded or the last session reset, hist.last is the last event;
\* bot.at[i] is where task i stands
InitNet ==
    /\ now = 0 /\ cycle = 0 /\ faults = 0
    /\ pos = [t \in Tasks |-> 0]
    /\ resting = [t \in Tasks |-> NoRest]
    /\ ex = [t \in Tasks |-> Idle]
    /\ pc = "net"
    /\ tg = <<>>
    /\ bot = [at |-> [i \in NetTasks |-> "idle"]]
    /\ hist = [errors |-> 0, session |-> FALSE, run |-> 0, last |-> <<"-", "-">>]

\* a request of task i is answered with status 200
request_succeeds(i) ==
    /\ pc = "net" /\ bot.at[i] = "idle"
    /\ \E request \in Requests :
        hist' = [hist EXCEPT !.errors = errors_after_success(request, @),
                             !.session = TRUE, !.run = 0,
                             !.last = <<request, "ok">>]
    /\ UNCHANGED <<now, cycle, faults, pos, resting, ex, pc, bot, tg>>

\* a request of task i raises: _handle_network_error up to the await of
\* close_session, which hands the event loop to the other tasks or does not
\* (it depends on the connector having transports to wait for)
request_raises(i) ==
    /\ pc = "net" /\ bot.at[i] = "idle"
    /\ \E request \in CountedRequests :
        LET errors == hist.errors + 1 IN
        IF errors >= 3
        THEN \/ /\ bot' = [bot EXCEPT !.at[i] = "closing"]
                /\ hist' = [hist EXCEPT !.errors = errors, !.session = TRUE,
                                        !.run = @ + 1, !.last = <<request, "reset">>]
             \/ /\ bot' = bot
                /\ hist' = [hist EXCEPT !.errors = 0, !.session = FALSE,
                                        !.run = 0, !.last = <<request, "reset">>]
        ELSE /\ bot' = bot
             /\ hist' = [hist EXCEPT !.errors = errors, !.session = TRUE,
                                     !.run = @ + 1, !.last = <<request, "error">>]
    /\ UNCHANGED <<now, cycle, faults, pos, resting, ex, pc, tg>>

\* close_session has returned to task i: self.session = None, then
\* _consecutive_errors = 0 and the sleep
session_closed(i) ==
    /\ pc = "net" /\ bot.at[i] = "closing"
    /\ bot' = [bot EXCEPT !.at[i] = "idle"]
    /\ hist' = [hist EXCEPT !.errors = 0, !.session = FALSE, !.run = 0,
                            !.last = <<"close_session", "ok">>]
    /\ UNCHANGED <<now, cycle, faults, pos, resting, ex, pc, tg>>

NextNet ==
    \/ \E i \in NetTasks : request_succeeds(i)
    \/ \E i \in NetTasks : request_raises(i)
    \/ \E i \in NetTasks : session_closed(i)

SpecNet == InitNet /\ [][NextNet]_vars

----------------------------------------------------------------------------
(* smart_monitor_loop on its own, from its call to its return *)

\* the history of a hold: the rates seen by the last funding check
HoldHist == [rates |-> <<NoRate, NoRate>>]

InitHold ==
    /\ now = 0 /\ cycle = 0 /\ faults = 0
    /\ resting = [t \in Tasks |-> NoRest]
    /\ ex = [t \in Tasks |-> Idle]
    /\ pc = "hold"
    /\ tg = <<>> /\ hist = HoldHist
    /\ \E s \in Symbols, pac_side \in {"SELL", "BUY"} :
        /\ bot = [NoBot EXCEPT !.symbol = s, !.pac_side = pac_side,
                               !.hold_start = 0, !.hold_time = HOLD_MIN * 1000]
        /\ pos = [t \in Tasks |->
                 IF (t[1] = "pac") = (pac_side = "BUY")
                 THEN 2 * MIN_SIZE ELSE -2 * MIN_SIZE]

NextHold == smart_monitor_loop

SpecHold == InitHold /\ [][NextHold]_vars

----------------------------------------------------------------------------
(* safe_universal_close alone, called on the instrument with any positions; *)
(* the history keeps the time the landing check went on failing             *)

InitClose ==
    /\ now = 0 /\ cycle = 0 /\ faults = 0
    /\ pos \in [Tasks -> InitPos]
    /\ resting = [t \in Tasks |-> NoRest]
    /\ ex = [t \in Tasks |-> Idle]
    /\ pc = "landing"
    /\ bot = [NoBot EXCEPT !.symbols = close_targets(Symbols)]
    /\ tg = <<>>
    /\ hist = [f \in DOMAIN NoHist \cup {"waited"} |->
                IF f = "waited" THEN 0 ELSE NoHist[f]]

NextClose ==
    \/ safe_universal_close_landing
    \/ safe_universal_close_round
    \/ safe_universal_close_gather
    \/ Engine
    \/ \E t \in Tasks : Fill(t)
    \/ Tick

SpecClose == InitClose /\ [][NextClose]_vars

----------------------------------------------------------------------------
(* The bot under fair scheduling: the event loop runs every coroutine that *)
(* is ready, and time passes                                               *)

Fairness ==
    /\ \A t \in Tasks :
        /\ WF_vars(pac_execute_smart_maker(t))
        /\ WF_vars(pac_cancel_order(t))
        /\ WF_vars(par_cancel_all_open_orders(t))
        /\ WF_vars(par_execute_smart_maker(t))
    /\ WF_vars(emergency_rollback)
    /\ WF_vars(rollback_hedge_leg)
    /\ WF_vars(safe_universal_close_round)
    /\ WF_vars(safe_universal_close_gather)
    /\ WF_vars(Tick)

SpecFair == Init /\ [][Next]_vars /\ Fairness

----------------------------------------------------------------------------
(* The bot with the venues at their best: no fault is left to happen (every *)
(* position query and every cancel goes through, an order fills whole or    *)
(* not at all), the landing check passes in the end, and a close call that  *)
(* keeps trying gets its quote and its fill in the end                      *)

InitCalm ==
    /\ now = 0 /\ cycle = 0 /\ faults = MaxFaults
    /\ pos \in [Tasks -> InitPos]
    /\ resting = [t \in Tasks |-> NoRest]
    /\ ex = [t \in Tasks |-> Idle]
    /\ pc = "scan"
    /\ bot = NoBot /\ tg = <<>> /\ hist = NoHist

\* the landing check passes
LandingPasses == safe_universal_close_landing /\ pc' = "monitor"

\* the clock during close calls that have not reached their taker window,
\* once the clock of the model stands still: the time that passes is taken
\* from the calls' start_time, so that their elapsed time goes on
CallTick ==
    /\ ~ENABLED Tick
    /\ \E t \in Tasks :
         /\ Active(t) /\ ex[t].is_close
         /\ Time - ex[t].start_time <= CLOCK_STEP
    /\ ex' = [t \in Tasks |->
                IF Active(t) /\ ex[t].is_close /\ Time - ex[t].start_time <= CLOCK_STEP
                THEN [ex[t] EXCEPT !.start_time = @ - CLOCK_STEP]
                ELSE ex[t]]
    /\ UNCHANGED <<now, cycle, faults, pos, resting, pc, bot, tg, hist>>

\* the clock goes on while the close call on t waits for its taker window
CallTickOf(t) ==
    /\ Active(t) /\ ex[t].is_close
    /\ Time - ex[t].start_time <= CLOCK_STEP
    /\ CallTick

\* a close call on t has its order filled
CloseFills(t) ==
    /\ ex[t].is_close
    /\ pac_execute_smart_maker(t) \/ par_execute_smart_maker(t)
    /\ pos'[t] # pos[t]

NextCalm == Next \/ CallTick

FairnessCalm ==
    /\ Fairness
    /\ SF_vars(LandingPasses)
    /\ \A t \in Tasks : SF_vars(CallTickOf(t)) /\ SF_vars(CloseFills(t))

SpecCalm == InitCalm /\ [][NextCalm]_vars /\ FairnessCalm

----------------------------------------------------------------------------
(* Properties *)

\* C1: while the hedge leg runs or has just returned, the quantity it was
\* called with is the absolute primary position read after the primary leg
C1_HedgeSizedToFill ==
    pc = "open_par" => ex[Par(bot.symbol)].qty = Abs(hist.pac_read)

\* the hedge leg is running after a primary fill that is short of the plan
C1_PartialFillHedged ==
    /\ pc = "open_par"
    /\ Active(Par(bot.symbol))
    /\ hist.pac_read # 0
    /\ Abs(hist.pac_read) # bot.target_qty

\* C2: once the hedge leg has reported failure and the notification is out,
\* execute_dual_open is in or past the rollback: panic_close has been called
C2_RollbackAlways ==
    (hist.hedge_failed /\ pc # "rollback") => hist.panic

\* execute_dual_open has returned failure after a failed hedge leg
C2_ReturnedAfterRollback ==
    hist.open_ret = "hedge_failed" /\ hist.panic /\ pc = "cooldown"

\* the venue's minimum tradable size
MinTradable(t) == IF t[1] = "pac" THEN MIN_SIZE ELSE PAR_STEP

\* C3: a close-mode call that has returned success has left less than the
\* venue's minimum tradable size
C3_NoFalseSuccess ==
    \A t \in Tasks :
        (ex[t].pc = "done" /\ ex[t].is_close /\ ex[t].ret)
            => Abs(pos[t]) < MinTradable(t)

\* the call of task t places an order in this step
PlacesOrder(t) == ex[t].pc \in {"loop", "read"} /\ ex'[t].placed # NoOrder

\* the elapsed time the call of task t sees
Elapsed(t) == Time - ex[t].start_time

\* C4 as stated: an order placed at or below the mode's threshold (10 s for
\* close or aggressive calls, 30 s for patient opens) is a maker order, one
\* placed above it is a taker order, on either venue
C4_Stated ==
    [][\A t \in Tasks : PlacesOrder(t) =>
        LET threshold == IF ex[t].is_close \/ ex[t].aggressive THEN 10000 ELSE 30000
        IN (ex'[t].placed = "maker") = (Elapsed(t) <= threshold)]_vars

\* C4: on the primary venue a close-mode order is a maker order up to 10 s
\* and a taker order above, and an open-mode order is always a maker order;
\* on the hedge venue a close or aggressive call's order is a maker order
\* below 10 s and a taker order from 10 s on, and a patient open's order is
\* a maker order up to 30 s and a taker order above
C4_Escalation ==
    [][\A t \in Tasks : PlacesOrder(t) =>
        (ex'[t].placed = "taker") =
            IF t[1] = "pac" THEN ex[t].is_close /\ Elapsed(t) > 10000
            ELSE IF ex[t].is_close \/ ex[t].aggressive THEN Elapsed(t) >= 10000
            ELSE Elapsed(t) > 30000]_vars

\* a primary-venue close call has just placed a maker order at 10 s sharp
C4_MakerAtThreshold ==
    \E t \in Tasks :
        /\ t[1] = "pac" /\ ex[t].is_close
        /\ ex[t].pc = "cancel" /\ ex[t].placed = "maker"
        /\ Elapsed(t) = 10000

\* C5: in a close episode the timeout notification goes out at most once, the
\* resolved notification only at the return and only after a timeout
\* notification, and at the return there are as many of the one as of the other
C5_AlertOnce ==
    /\ Count("CLOSE_TIMEOUT") <= 1
    /\ Count("RESOLVED") <= Count("CLOSE_TIMEOUT")
    /\ Count("RESOLVED") > 0 => hist.close_done
    /\ hist.close_done => Count("RESOLVED") = Count("CLOSE_TIMEOUT")

\* an episode that alerted has returned
C5_Resolved ==
    hist.close_done /\ Count("CLOSE_TIMEOUT") = 1 /\ Count("RESOLVED") = 1

\* C6: the watchdog is monitoring or has close calls out only after a landing
\* round in which both probes were healthy, and the landing check is left
\* only for the monitor loop
C6_LandingFirst ==
    /\ pc \in {"monitor", "gather"} => hist.probe = <<TRUE, TRUE>>
    /\ (\E t \in Tasks : Active(t) /\ ex[t].is_close /\ pc \notin {"rollback_pac", "rollback_par"})
            => (pc = "gather" /\ hist.probe = <<TRUE, TRUE>>)

\* close calls are out after a landing check
C6_Firing ==
    pc = "gather" /\ \E t \in Tasks : Active(t) /\ ex[t].is_close

\* C7: in a cycle whose scan found a dirty position the bot is in
\* safe_universal_close on the dirty instruments or past it, and has neither
\* analysed nor opened
C7_RescueFirst ==
    hist.scan_dirty =>
        /\ ~hist.analyzed /\ ~hist.opened
        /\ pc \in {"landing", "monitor", "gather", "cooldown"}
        /\ pc # "cooldown" => bot.symbols = hist.dirty
        /\ pc = "cooldown" => hist.close_done

\* the watchdog has close calls out for the dirty instruments of the scan
C7_Rescuing ==
    hist.scan_dirty /\ pc = "gather" /\ bot.symbols = hist.dirty

\* C8: when execute_dual_open, entered on a flat account, has returned failure
\* at a gate before the hedge leg, neither venue holds a position in the symbol
C8_NoPositionTaken ==
    (hist.open_ret \in {"spread", "health", "small"} /\ hist.flat_at_entry)
        => Flat(bot.symbol)

\* C9: when safe_universal_close has returned, no target holds a position on
\* either venue
C9_DoneMeansFlat ==
    hist.close_done => \A s \in bot.symbols : Flat(s)

\* C10: the close calls of a monitor round all come back, so that the round
\* ends and the next round's position reads begin
C10_RoundEnds == (pc = "gather") ~> (pc = "monitor")

\* C11 as stated: a close-mode call that has returned has returned success,
\* at a return where the position is seen cleared, on either venue
C11_Stated ==
    \A t \in Tasks :
        (ex[t].pc = "done" /\ ex[t].is_close)
            => (ex[t].ret /\ ex[t].why \in {"cleared", "dust"})

\* C11: a close-mode call never returns because of its timeout; on the primary
\* venue it returns only success where the position is seen cleared; on the
\* hedge venue it returns success there, or failure where an order was refused
\* for insufficient funds or an exception escaped the loop
C11_NeverGivesUp ==
    \A t \in Tasks :
        (ex[t].pc = "done" /\ ex[t].is_close) =>
            \/ ex[t].ret /\ ex[t].why \in {"cleared", "dust"}
            \/ t[1] = "par" /\ ~ex[t].ret /\ ex[t].why \in {"funds", "error"}

\* a close call on the primary venue has outlived its timeout and then
\* returned success
C11_ClearedAfterTimeout ==
    \E t \in Tasks :
        /\ t[1] = "pac" /\ ex[t].pc = "done" /\ ex[t].is_close
        /\ ex[t].ret /\ now > 10000 /\ pos[t] = 0

\* C12: the scan and the monitor round take a symbol whose positions are all
\* below the venue's minimum tradable size for flat: the scan does not ask
\* for the rescue and the monitor round does not fan out close calls for it
C12_DustIsFlat ==
    [][/\ (pc = "scan" /\ pc' = "landing")
            => \E t \in Tasks : Abs(pos[t]) >= MinTradable(t)
       /\ (pc = "monitor" /\ pc' = "gather")
            => \A s \in Symbols :
                 (\E t \in Tasks : t[2] = s /\ ex'[t].pc # "idle" /\ ex'[t].pc # "done")
                    => \E t \in Tasks : t[2] = s /\ Abs(pos[t]) >= MinTradable(t)]_vars

\* the venues' answers for the coin at place i of the list analysed
FetchFailed(i) == ~hist.pac_rates[i].ok \/ ~hist.par_rates[i].ok

\* the annualised spread of the coin at place i, in either direction
SpreadApy(i) ==
    Abs(hist.pac_rates[i].v - hist.par_rates[i].v \div 8) * 24 * 365

\* the places of the list whose rates were both fetched and whose spread
\* reaches MIN_OPEN_APY
Qualifying ==
    {i \in DOMAIN hist.coins : ~FetchFailed(i) /\ SpreadApy(i) >= MIN_OPEN_APY}

\* C13: analyze_funding_opportunities never returns a coin whose rate could
\* not be fetched on either venue, and such a coin does not keep the others
\* from being selected: a result comes back whenever some coin qualifies
C13_FailedFetchSkipped ==
    pc = "analyze_out" =>
        /\ \A i \in DOMAIN hist.coins : FetchFailed(i) => bot.symbol # hist.coins[i]
        /\ Qualifying # {} => bot.symbol # "None"

\* the first coin of the list could not be fetched and a later one is returned
C13_LaterCoinSelected ==
    /\ pc = "analyze_out"
    /\ Len(hist.coins) >= 2
    /\ FetchFailed(1)
    /\ bot.symbol = hist.coins[2]

\* C14: the coin returned is the first in list order of the qualifying coins
\* of the highest APY, its side on the primary venue is SELL exactly when the
\* primary rate minus the hedge rate is the larger spread and BUY otherwise,
\* and nothing is returned when no coin qualifies
C14_BestOpportunity ==
    pc = "analyze_out" =>
        IF Qualifying = {} THEN bot.symbol = "None"
        ELSE \E i \in Qualifying :
                /\ bot.symbol = hist.coins[i]
                /\ \A j \in Qualifying :
                     /\ SpreadApy(j) <= SpreadApy(i)
                     /\ SpreadApy(j) = SpreadApy(i) => i <= j
                /\ bot.pac_side = "SELL" <=>
                     hist.pac_rates[i].v - hist.par_rates[i].v \div 8
                        > hist.par_rates[i].v \div 8 - hist.pac_rates[i].v
                /\ bot.pac_side \in {"SELL", "BUY"}

\* two coins qualify with the same APY, one to sell and one to buy on the
\* primary venue, and the first of the list is returned, to buy
C14_TieFirstWins ==
    /\ pc = "analyze_out"
    /\ Qualifying = {1, 2}
    /\ SpreadApy(1) = SpreadApy(2)
    /\ bot.symbol = hist.coins[1]
    /\ bot.pac_side = "BUY"
    /\ hist.pac_rates[2].v > hist.par_rates[2].v \div 8

\* C15: a close-mode iteration that reads a position below the venue's
\* minimum tradable size returns success at once, on either venue, and
\* places no order
C15_DustReturnsSuccess ==
    [][\A t \in Tasks :
         (/\ ex[t].is_close /\ ex[t].pc \in {"loop", "read"}
          /\ ex'[t] # ex[t]
          /\ Abs(pos[t]) < MinTradable(t))
            => /\ ex'[t].pc = "done" /\ ex'[t].ret
               /\ resting'[t] = resting[t] /\ pos'[t] = pos[t]]_vars

\* the positions of symbol s are opposite and the hedge venue's size is
\* within 5% of the primary venue's
Hedged(s) ==
    /\ pos[Pac(s)] * pos[Par(s)] < 0
    /\ 100 * Abs(Abs(pos[Par(s)]) - Abs(pos[Pac(s)])) <= 5 * Abs(pos[Pac(s)])

\* C16: when execute_dual_open returns success the positions on the two
\* venues have opposite signs and the hedge size is within 5% of the primary
C16_OpenedHedged ==
    [][(pc = "open_par" /\ pc' = "hold") => Hedged(bot.symbol)']_vars

\* C17: an exception raised inside a cycle of run is caught: the WARNING
\* notification is sent, the cooldown follows, and after the cooldown the
\* loop begins a new cycle with the scan
C17_ExceptionCaught ==
    [][/\ (pc = "error" /\ pc' # "error")
            => (pc' = "cooldown" /\ tg' = Append(tg, "LOOP_ERROR"))
       /\ (pc = "cooldown" /\ pc' # "cooldown")
            => (pc' = "scan" /\ cycle' = cycle + 1)]_vars

\* an exception left the hold with the positions open, and a new cycle has
\* begun with them still there
C17_NextCycleAfterError ==
    /\ cycle = 1 /\ pc = "scan"
    /\ pos[Pac("BNB")] # 0 /\ pos[Par("BNB")] # 0
    /\ pos[Pac("BNB")] = -pos[Par("BNB")]
    /\ now = 0 /\ faults = 1

\* C18: the phases of a cycle come in the order scan, analysis, dual open,
\* hold, safe close; and after execute_dual_open has returned success
\* (hist.owed is its symbol until a safe_universal_close on that symbol has
\* returned) execute_dual_open is not entered again before that close
C18_PhaseOrder ==
    [][/\ pc' = "analyze" => pc = "scan"
       /\ pc' = "open" => pc = "analyze"
       /\ (pc' = "hold" /\ pc # "hold") => pc = "open_par"
       /\ (pc' = "landing" /\ pc # "landing") => pc \in {"scan", "hold"}
       /\ (pc = "open" /\ pc' # "open") => hist.owed = "-"]_vars

\* the watchdog has been firing for more than CLOSE_TIMEOUT_ALERT seconds and
\* a position of its working set is still open
CloseOverdue ==
    /\ pc \in {"monitor", "gather"}
    /\ Time - bot.start_close_time > CLOSE_TIMEOUT_ALERT * 1000
    /\ \E s \in bot.symbols : ~Flat(s)

\* C19: when positions remain open more than CLOSE_TIMEOUT_ALERT seconds
\* after the firing began, safe_universal_close eventually sends the CRITICAL
\* notification (unless the positions are closed first)
C19_AlertEventually == CloseOverdue ~> (bot.alert_sent \/ ~CloseOverdue)

\* C20: on both venues no order of the engine is resting when an iteration
\* reads the position
C20_NoRestingAtRead ==
    [][\A t \in Tasks :
         (ex[t].pc \in {"loop", "read"} /\ ex'[t] # ex[t])
            => resting[t] = NoRest]_vars

\* execute_smart_maker on the venue of t returns from open mode in this step
OpenReturns(t) ==
    /\ ex[t].pc \in {"loop", "read"} /\ ~ex[t].is_close
    /\ ex'[t].pc = "done"

\* C21 as stated: an open-mode call returns success only where the position
\* is at least 98% of the target
C21_Stated ==
    [][\A t \in Tasks :
         (OpenReturns(t) /\ ex'[t].ret)
            => 100 * Abs(pos[t]) >= 98 * ex[t].qty]_vars

\* C21: an open-mode call returns success only where the position is at
\* least 98% of the target, or where what is missing is less than one lot of
\* the venue; at every other return it returns failure
C21_SuccessAtFillOrDust ==
    [][\A t \in Tasks :
         (OpenReturns(t) /\ ex'[t].ret)
            => \/ 100 * Abs(pos[t]) >= 98 * ex[t].qty
               \/ ex[t].qty - Abs(pos[t]) < MinTradable(t)]_vars

\* an open-mode call has returned success with less than 98% of its target
C21_DustSuccess ==
    \E t \in Tasks :
        /\ ex[t].pc = "done" /\ ~ex[t].is_close /\ ex[t].ret
        /\ ex[t].why = "dust"
        /\ 100 * Abs(pos[t]) < 98 * ex[t].qty

\* C22: after the hedge leg has failed and the CRITICAL notification is out,
\* emergency_rollback issues the close-mode unwind on the primary venue and
\* then, eventually, the close-mode unwind on the hedge venue
C22_BothUnwindsIssued ==
    (pc = "rollback" /\ Count("HEDGE_FAILED") = 1) ~> (pc = "rollback_par")

\* C23: with required balance 0, check_health reports healthy whenever the
\* hedge venue has answered the account query, whatever the free balance
C23_ConnectivityOnly ==
    (pc = "health_out" /\ hist.required_x10 = 0 /\ hist.reply.ok) => hist.healthy

\* C24: no two execute_smart_maker calls are active on one (venue,
\* instrument) pair: a step of the main coroutine (the cycle controller, the
\* rollback, the watchdog's fan-out) leaves every call that is still running
\* as it is, so that it starts a call only on a pair that has none running
C24_OneCallPerPair ==
    [][pc' # pc => \A t \in Tasks : Active(t) => ex'[t] = ex[t]]_vars

\* the watchdog has calls running on both venues at once
C24_FanOut ==
    pc = "gather" /\ \A t \in Tasks : Active(t) /\ ex[t].is_close

\* C25: under every interleaving of the tasks that share the adapter, a
\* request that succeeds leaves the consecutive-error counter at 0, and so
\* does a session reset; a task resets the session only after 3 transport
\* errors with no successful request between them; and the counter never
\* exceeds 3
C25_ErrorCounter ==
    [][/\ hist'.last[2] = "ok" => hist'.errors = 0
       /\ (hist'.last[2] = "reset" /\ hist' # hist) => hist.run >= 2
       /\ hist'.errors <= 3]_vars

\* the funding check of the hold step saw both rates, and the APY of the
\* held direction under MIN_CLOSE_APY
SawApyDrop(rates) ==
    /\ rates[1].ok /\ rates[2].ok
    /\ (IF bot.pac_side = "SELL" THEN rates[1].v - rates[2].v \div 8
        ELSE rates[2].v \div 8 - rates[1].v) * 24 * 365 < MIN_CLOSE_APY

C27_CloseReturns == (pc = "landing") ~> (pc = "cooldown")

\* C28: when a call of execute_smart_maker has returned, with success or
\* with failure, no order that the call placed rests on the venue
C28_NothingLeftResting ==
    \A t \in Tasks : ex[t].pc = "done" => resting[t] = NoRest

\* C29: the landing-check loop of safe_universal_close sends no
\* notification, and the timeout-alert clock starts when the landing check
\* has passed: a CLOSE_TIMEOUT notification is sent only after a passed
\* landing check and more than CLOSE_TIMEOUT_ALERT seconds after it, however
\* long the landing check went on failing
C29_AlertClockStartsAtPass ==
    [][/\ pc = "landing" => tg' = tg
       /\ Count("CLOSE_TIMEOUT")' > Count("CLOSE_TIMEOUT")
            => /\ hist.probe = <<TRUE, TRUE>>
               /\ Time > CLOSE_TIMEOUT_ALERT * 1000]_vars

\* the landing check went on failing for longer than the alert time, no
\* alert was sent meanwhile, and the alert came later in the monitor loop
C29_AlertAfterLongLanding ==
    /\ waited(hist) > CLOSE_TIMEOUT_ALERT * 1000
    /\ Count("CLOSE_TIMEOUT") = 1
    /\ hist.probe = <<TRUE, TRUE>>

====
